---- MODULE Spec2Model ----
(***************************************************************************)
(* Model of workflow_agents/agent.py ("The Historical Court").             *)
(*                                                                         *)
(* The file builds a tree of google.adk agents and two tool functions.     *)
(* The tool functions (update_session_state, export_verdict_to_txt) are    *)
(* modelled statement by statement.  The agents are modelled by the way    *)
(* the file composes them: inquiry_clerk is an LLM agent with one          *)
(* sub-agent it may transfer to, court_system_workflow is a                *)
(* SequentialAgent, trial_review_loop a LoopAgent with max_iterations=3    *)
(* and investigation_stage a ParallelAgent; the run-time meaning of these  *)
(* three classes is the one of the google.adk package imported on line 9.  *)
(* What a language model decides (which bound tool it calls, with which    *)
(* arguments, how often) is a nondeterministic choice.                     *)
(***************************************************************************)
EXTENDS Integers, Sequences, FiniteSets, TLC

VARIABLES
  environ,      \* the process environment: names that are set -> value
  phase,        \* where the program is: import, the clerk, the workflow...
  status,       \* per agent: "idle", "running", "done" (in this iteration)
  runs,         \* per agent: how many times it has been started
  loopState,    \* trial_review_loop: NotStarted, Running, Exited, MaxedOut
  times_looped, \* LoopAgent's iteration counter
  state,        \* tool_context.state: keys that are set -> list of strings
  log,          \* history: every update_session_state call, in order
  fs,           \* the filesystem: [dirs, files, readOnly]
  escalate,     \* TRUE once exit_loop has been called
  exports       \* history: every export_verdict_to_txt call and its outcome

vars ==
  <<environ, phase, status, runs, loopState, times_looped, state, log, fs,
    escalate, exports>>

----------------------------------------------------------------------------
(* Bounds of the model. *)

MaxUpdates == 2

MaxExports == 2

(* The values language models and the user supply, drawn from small sets. *)

Values ==
  {"a", "b"}

Keys ==
  {"SUBJECT_TOPIC", "pos_data", "neg_data"}

Texts ==
  {"hello", "world"}

Folders ==
  {<<>>, <<"historical_court_reports">>, <<"out", "sub">>}

Agents ==
  {"inquiry_clerk", "admirer", "critic", "judge", "verdict_scribe"}

NoneValue ==
  "<None>"

----------------------------------------------------------------------------
(* Line 26: model_name = os.getenv("MODEL") *)

getenv(name) ==
  IF name \in DOMAIN environ THEN environ[name] ELSE NoneValue

model_name_with_default ==
  IF "MODEL" \in DOMAIN environ THEN environ["MODEL"] ELSE "gemini"

model_name ==
  getenv("MODEL")

(* Lines 55-58, 75-78, 101-103, 126-128, 160-162: Agent(model=model_name). *)
(* The Agent constructor takes a model name (a string) or a model object;  *)
(* None is neither and the constructor rejects it.                         *)

AgentAcceptsModel(m) ==
  m # NoneValue

(* Line 122 *)

max_iterations_one_more ==
  3 + 1

max_iterations ==
  3

----------------------------------------------------------------------------
(* Lines 30-37: update_session_state *)

StateGet(s, key, default) ==
  IF key \in DOMAIN s THEN s[key] ELSE default

StateSet(s, key, new) ==
  [k \in DOMAIN s \cup {key} |-> IF k = key THEN new ELSE s[k]]

update_session_state_overwrite(s, key, value) ==
  [state |-> StateSet(s, key, <<value>>),
   returned |-> [status |-> "success"]]

update_session_state(s, key, value) ==
  LET current_data == StateGet(s, key, <<>>)
  IN  [state |-> StateSet(s, key, current_data \o <<value>>),
       returned |-> [status |-> "success"]]

----------------------------------------------------------------------------
(* Lines 60, 107-111, 132-138: the "{ key? }" placeholders of the          *)
(* instructions.  A placeholder is replaced by str() of the state entry,   *)
(* and by the empty string when the key is absent (the "?" suffix).        *)
(* str() of a Python list of strings is "['a', 'b']".                      *)

repr(x) ==
  "'" \o x \o "'"

RECURSIVE join_reprs(_)
join_reprs(l) ==
  IF l = <<>> THEN ""
  ELSE IF Len(l) = 1 THEN repr(l[1])
  ELSE repr(l[1]) \o ", " \o join_reprs(Tail(l))

str(l) ==
  "[" \o join_reprs(l) \o "]"

inject_session_state(s, key) ==
  IF key \in DOMAIN s THEN str(s[key]) ELSE ""

(* Line 138: "Filename: { SUBJECT_TOPIC? }.txt" *)

ReportFileName(s) ==
  <<inject_session_state(s, "SUBJECT_TOPIC") \o ".txt">>

(* Line 137: the 'historical_court_reports' directory *)

ReportFolder ==
  <<"historical_court_reports">>

FileNames(s) ==
  {ReportFileName(s)}

----------------------------------------------------------------------------
(* Lines 39-50: export_verdict_to_txt.  A path is the sequence of its      *)
(* components; the empty sequence is the empty string.  Paths are relative *)
(* to the working directory.                                               *)

join(folder, file_name) ==
  folder \o file_name

dirname(path) ==
  IF path = <<>> THEN <<>> ELSE SubSeq(path, 1, Len(path) - 1)

(* os.makedirs(name, exist_ok=True): creates name and its missing parents, *)
(* top down; directories created before a failure stay.                    *)

RECURSIVE makedirs_from(_, _, _)
makedirs_from(f, name, i) ==
  IF i > Len(name) THEN [raised |-> "none", fs |-> f]
  ELSE LET p == SubSeq(name, 1, i)
       IN  IF p \in f.dirs THEN makedirs_from(f, name, i + 1)
           ELSE IF p \in DOMAIN f.files
             THEN [raised |-> IF i = Len(name) THEN "FileExistsError"
                                               ELSE "NotADirectoryError",
                   fs |-> f]
           ELSE IF f.readOnly THEN [raised |-> "PermissionError", fs |-> f]
           ELSE makedirs_from([f EXCEPT !.dirs = @ \cup {p}], name, i + 1)

makedirs(f, name) ==
  IF name = <<>> THEN [raised |-> "FileNotFoundError", fs |-> f]
  ELSE makedirs_from(f, name, 1)

(* with open(path, "w", encoding="utf-8") as file: file.write(text_content) *)

write_text_append(old, text_content) ==
  old \o text_content

write_text(old, text_content) ==
  text_content

open_w_write(f, path, text_content) ==
  IF path \in f.dirs THEN [raised |-> "IsADirectoryError", fs |-> f]
  ELSE IF f.readOnly THEN [raised |-> "PermissionError", fs |-> f]
  ELSE [raised |-> "none",
        fs |-> [f EXCEPT !.files =
                  [q \in DOMAIN f.files \cup {path} |->
                     IF q = path
                       THEN write_text(IF path \in DOMAIN f.files
                                         THEN f.files[path] ELSE "",
                                       text_content)
                       ELSE f.files[q]]]]

(* The result: the exception that leaves the function ("none" when it     *)
(* returns), the returned status, and the filesystem afterwards.           *)

export_verdict_to_txt(f, folder, file_name, text_content) ==
  LET path == join(folder, file_name)
      made == makedirs(f, dirname(path))
      done == open_w_write(made.fs, path, text_content)
  IN  IF made.raised # "none"
        THEN [raised |-> made.raised, status |-> "none", fs |-> made.fs]
      ELSE IF done.raised # "none"
        THEN [raised |-> done.raised, status |-> "none", fs |-> done.fs]
      ELSE [raised |-> "none", status |-> "success", fs |-> done.fs]

----------------------------------------------------------------------------
(* The state after the interpreter has started and before the module is    *)
(* imported: MODEL is set or not, the filesystem is writable or not, and   *)
(* the report directory's name is free or taken by a regular file.         *)

EmptyState ==
  [k \in {} |-> <<>>]

Environments ==
  {[n \in {} |-> ""], [n \in {"MODEL"} |-> "gemini"]}

Filesystems ==
  {[dirs |-> {}, files |-> fl, readOnly |-> ro] :
     fl \in {[q \in {} |-> ""], [q \in {ReportFolder} |-> "hello"]},
     ro \in BOOLEAN}

Init ==
  /\ environ \in Environments
  /\ phase = "import"
  /\ status = [a \in Agents |-> "idle"]
  /\ runs = [a \in Agents |-> 0]
  /\ loopState = "NotStarted"
  /\ times_looped = 0
  /\ state = EmptyState
  /\ log = <<>>
  /\ fs \in Filesystems
  /\ escalate = FALSE
  /\ exports = <<>>

(* Lines 26-172: importing the module builds the five agents; each gets    *)
(* model=model_name.                                                       *)

Import ==
  /\ phase = "import"
  /\ phase' = IF AgentAcceptsModel(model_name) THEN "ready" ELSE "config_error"
  /\ UNCHANGED <<environ, status, runs, loopState, times_looped, state, log,
                 fs, escalate, exports>>

(* Line 174: root_agent = inquiry_clerk; a run starts in the clerk. *)

RunStart ==
  /\ phase = "ready"
  /\ phase' = "clerk"
  /\ status' = [status EXCEPT !["inquiry_clerk"] = "running"]
  /\ runs' = [runs EXCEPT !["inquiry_clerk"] = @ + 1]
  /\ UNCHANGED <<environ, loopState, times_looped, state, log, fs, escalate,
                 exports>>

(* A call of the tool update_session_state by agent a (lines 30-37). *)

CallUpdate(a, key, value) ==
  /\ Len(log) < MaxUpdates
  /\ LET r == update_session_state(state, key, value)
     IN  /\ state' = r.state
         /\ log' = Append(log, [agent |-> a, key |-> key, value |-> value,
                                status |-> r.returned.status])

(* Lines 160-172: inquiry_clerk has the tool update_session_state and the  *)
(* sub-agent court_system_workflow, which it may transfer to.              *)

ClerkUpdate ==
  /\ phase = "clerk"
  /\ \E key \in Keys, value \in Values : CallUpdate("inquiry_clerk", key, value)
  /\ UNCHANGED <<environ, phase, status, runs, loopState, times_looped, fs,
                 escalate, exports>>

(* The transfer starts court_system_workflow (lines 150-157), whose first  *)
(* sub-agent is trial_review_loop.                                         *)

ClerkTransfer ==
  /\ phase = "clerk"
  /\ phase' = "workflow"
  /\ status' = [status EXCEPT !["inquiry_clerk"] = "done"]
  /\ loopState' = "Running"
  /\ UNCHANGED <<environ, runs, times_looped, state, log, fs, escalate,
                 exports>>

(* The clerk answers without transferring; the run ends. *)

ClerkEnd ==
  /\ phase = "clerk"
  /\ phase' = "done"
  /\ status' = [status EXCEPT !["inquiry_clerk"] = "done"]
  /\ UNCHANGED <<environ, runs, loopState, times_looped, state, log, fs,
                 escalate, exports>>

----------------------------------------------------------------------------
(* Lines 119-123: trial_review_loop = LoopAgent([investigation_stage,      *)
(* the_judge], max_iterations=3).  Lines 95-98: investigation_stage runs   *)
(* the_admirer and the_critic in parallel.                                 *)

LoopAgents ==
  {"admirer", "critic", "judge"}

BetweenIterations ==
  \A a \in LoopAgents : status[a] = "idle"

StartIteration ==
  /\ phase = "workflow"
  /\ loopState = "Running"
  /\ BetweenIterations
  /\ times_looped < max_iterations
  /\ status' = [a \in Agents |->
                  IF a \in {"admirer", "critic"} THEN "running" ELSE status[a]]
  /\ runs' = [a \in Agents |->
                IF a \in {"admirer", "critic"} THEN runs[a] + 1 ELSE runs[a]]
  /\ UNCHANGED <<environ, phase, loopState, times_looped, state, log, fs,
                 escalate, exports>>

LoopMaxedOut ==
  /\ phase = "workflow"
  /\ loopState = "Running"
  /\ BetweenIterations
  /\ times_looped >= max_iterations
  /\ loopState' = "MaxedOut"
  /\ UNCHANGED <<environ, phase, status, runs, times_looped, state, log, fs,
                 escalate, exports>>

(* Lines 55-72 and 75-92: the_admirer and the_critic have the tool         *)
(* update_session_state.                                                   *)

BranchUpdate(a) ==
  /\ phase = "workflow"
  /\ status[a] = "running"
  /\ \E key \in Keys, value \in Values : CallUpdate(a, key, value)
  /\ UNCHANGED <<environ, phase, status, runs, loopState, times_looped, fs,
                 escalate, exports>>

BranchFinish(a) ==
  /\ phase = "workflow"
  /\ status[a] = "running"
  /\ status' = [status EXCEPT ![a] = "done"]
  /\ UNCHANGED <<environ, phase, runs, loopState, times_looped, state, log,
                 fs, escalate, exports>>

(* investigation_stage is over when both sub-agents are; the_judge is the  *)
(* next sub-agent of the loop.                                             *)

InvestigationComplete ==
  status["admirer"] = "done" /\ status["critic"] = "done"

JudgeStart_partial ==
  /\ phase = "workflow"
  /\ loopState = "Running"
  /\ status["admirer"] = "done" \/ status["critic"] = "done"
  /\ status["judge"] = "idle"
  /\ status' = [status EXCEPT !["judge"] = "running"]
  /\ runs' = [runs EXCEPT !["judge"] = @ + 1]
  /\ UNCHANGED <<environ, phase, loopState, times_looped, state, log, fs,
                 escalate, exports>>

JudgeStart ==
  /\ phase = "workflow"
  /\ loopState = "Running"
  /\ InvestigationComplete
  /\ status["judge"] = "idle"
  /\ status' = [status EXCEPT !["judge"] = "running"]
  /\ runs' = [runs EXCEPT !["judge"] = @ + 1]
  /\ UNCHANGED <<environ, phase, loopState, times_looped, state, log, fs,
                 escalate, exports>>

(* Lines 101-116: the_judge has the tool exit_loop, which ends the loop. *)

JudgeExitLoop_ignored ==
  /\ phase = "workflow"
  /\ status["judge"] = "running"
  /\ escalate' = TRUE
  /\ status' = [a \in Agents |->
                  IF a \in LoopAgents THEN "idle" ELSE status[a]]
  /\ times_looped' = times_looped + 1
  /\ UNCHANGED <<environ, phase, runs, loopState, state, log, fs, exports>>

JudgeExitLoop ==
  /\ phase = "workflow"
  /\ status["judge"] = "running"
  /\ escalate' = TRUE
  /\ loopState' = "Exited"
  /\ status' = [status EXCEPT !["judge"] = "done"]
  /\ UNCHANGED <<environ, phase, runs, times_looped, state, log, fs, exports>>

(* The judge ends without calling exit_loop: the iteration is complete. *)

JudgeFinish ==
  /\ phase = "workflow"
  /\ status["judge"] = "running"
  /\ status' = [a \in Agents |->
                  IF a \in LoopAgents THEN "idle" ELSE status[a]]
  /\ times_looped' = times_looped + 1
  /\ UNCHANGED <<environ, phase, runs, loopState, state, log, fs, escalate,
                 exports>>

----------------------------------------------------------------------------
(* Lines 150-157: court_system_workflow = SequentialAgent([                *)
(* trial_review_loop, verdict_scribe]): the scribe follows the loop.       *)

LoopTerminated ==
  loopState \in {"Exited", "MaxedOut"}

ScribeStart_early ==
  /\ phase = "workflow"
  /\ loopState # "NotStarted"
  /\ status["verdict_scribe"] = "idle"
  /\ status' = [status EXCEPT !["verdict_scribe"] = "running"]
  /\ runs' = [runs EXCEPT !["verdict_scribe"] = @ + 1]
  /\ UNCHANGED <<environ, phase, loopState, times_looped, state, log, fs,
                 escalate, exports>>

ScribeStart ==
  /\ phase = "workflow"
  /\ LoopTerminated
  /\ status["verdict_scribe"] = "idle"
  /\ status' = [status EXCEPT !["verdict_scribe"] = "running"]
  /\ runs' = [runs EXCEPT !["verdict_scribe"] = @ + 1]
  /\ UNCHANGED <<environ, phase, loopState, times_looped, state, log, fs,
                 escalate, exports>>

(* Lines 126-147: verdict_scribe has the tool export_verdict_to_txt.  An   *)
(* exception that leaves the tool function ends the run.                   *)

ScribeExport ==
  /\ phase = "workflow"
  /\ status["verdict_scribe"] = "running"
  /\ Len(exports) < MaxExports
  /\ \E folder \in Folders, file_name \in FileNames(state), text \in Texts :
       LET r == export_verdict_to_txt(fs, folder, file_name, text)
       IN  /\ fs' = r.fs
           /\ exports' = Append(exports,
                                [folder |-> folder, file_name |-> file_name,
                                 text |-> text, raised |-> r.raised,
                                 status |-> r.status])
           /\ phase' = IF r.raised # "none" THEN "crashed" ELSE phase
  /\ UNCHANGED <<environ, status, runs, loopState, times_looped, state, log,
                 escalate>>

ScribeFinish ==
  /\ phase = "workflow"
  /\ status["verdict_scribe"] = "running"
  /\ status' = [status EXCEPT !["verdict_scribe"] = "done"]
  /\ phase' = "done"
  /\ UNCHANGED <<environ, runs, loopState, times_looped, state, log, fs,
                 escalate, exports>>

----------------------------------------------------------------------------

WorkflowNext ==
  \/ StartIteration
  \/ LoopMaxedOut
  \/ BranchUpdate("admirer")
  \/ BranchUpdate("critic")
  \/ BranchFinish("admirer")
  \/ BranchFinish("critic")
  \/ JudgeStart
  \/ JudgeExitLoop
  \/ JudgeFinish
  \/ ScribeStart
  \/ ScribeExport
  \/ ScribeFinish

Next ==
  \/ Import
  \/ RunStart
  \/ ClerkUpdate
  \/ ClerkTransfer
  \/ ClerkEnd
  \/ WorkflowNext

Spec ==
  Init /\ [][Next]_vars

(* Once court_system_workflow runs, every model call and every tool call   *)
(* returns and the framework goes on to the next agent.                    *)

FairSpec ==
  Spec /\ WF_vars(WorkflowNext)

TypeOK ==
  /\ phase \in {"import", "config_error", "ready", "clerk", "workflow", "done",
                "crashed"}
  /\ status \in [Agents -> {"idle", "running", "done"}]
  /\ loopState \in {"NotStarted", "Running", "Exited", "MaxedOut"}
  /\ times_looped \in 0..max_iterations
  /\ DOMAIN state \subseteq Keys
  /\ Len(log) <= MaxUpdates
  /\ Len(exports) <= MaxExports

----------------------------------------------------------------------------
(* Helpers of the properties. *)

IsPrefix(p, q) ==
  Len(p) <= Len(q) /\ SubSeq(q, 1, Len(p)) = p

RECURSIVE ValuesOf(_)
ValuesOf(entries) ==
  IF entries = <<>> THEN <<>>
  ELSE <<Head(entries).value>> \o ValuesOf(Tail(entries))

(* The values appended under key, in call order. *)
Appended(key) ==
  ValuesOf(SelectSeq(log, LAMBDA e : e.key = key))

AppendedBy(a, key) ==
  \E i \in 1..Len(log) : log[i].agent = a /\ log[i].key = key

WorkflowAgents ==
  Agents \ {"inquiry_clerk"}

----------------------------------------------------------------------------
(* C1: the review loop ends after at most 3 iterations of                  *)
(* [investigation_stage, judge] even if exit_loop is never called: the     *)
(* iteration counter never exceeds 3, no loop agent is started a 4th time, *)
(* reaching the cap leaves the run going (it is no error), and a running   *)
(* loop always reaches Exited or MaxedOut.                                 *)

C1_LoopTerminatesWithinCap ==
  /\ [](/\ times_looped <= 3
        /\ \A a \in LoopAgents : runs[a] <= 3
        /\ (loopState = "MaxedOut" => times_looped = 3 /\ ~escalate))
  /\ [][loopState # "MaxedOut" /\ loopState' = "MaxedOut"
          => phase' = "workflow"]_vars
  /\ (loopState = "Running" ~> LoopTerminated)

C1_Witness ==
  /\ loopState = "MaxedOut"
  /\ ~escalate
  /\ runs["judge"] = 3
  /\ runs["admirer"] = 3

(* C2: once exit_loop has been called the loop is over in that same step:  *)
(* the loop is Exited from then on, and no admirer, critic or judge is     *)
(* started again.                                                          *)

C2_ExitLoopEndsLoopAtOnce ==
  /\ [](escalate => /\ loopState = "Exited"
                     /\ \A a \in LoopAgents : status[a] # "running")
  /\ [][escalate' => /\ \A a \in LoopAgents : runs'[a] = runs[a]
                     /\ (escalate => times_looped' = times_looped)]_vars

C2_Witness ==
  /\ escalate
  /\ runs["judge"] = 2
  /\ times_looped = 1
  /\ status["verdict_scribe"] = "done"

(* C3: verdict_scribe runs only after the loop has ended, by exit_loop or  *)
(* by the cap; once the loop has ended the scribe does run; and what the   *)
(* admirer appended to pos_data and the critic to neg_data is there, as a  *)
(* non-empty list and a non-empty rendering, when the scribe runs.         *)

C3_ScribeAfterLoop ==
  /\ [](status["verdict_scribe"] # "idle" =>
          /\ LoopTerminated
          /\ \A a \in LoopAgents : status[a] # "running"
          /\ ((/\ AppendedBy("admirer", "pos_data")
               /\ AppendedBy("critic", "neg_data"))
                => /\ StateGet(state, "pos_data", <<>>) # <<>>
                   /\ StateGet(state, "neg_data", <<>>) # <<>>
                   /\ inject_session_state(state, "pos_data") # ""
                   /\ inject_session_state(state, "neg_data") # ""))
  /\ (LoopTerminated ~> runs["verdict_scribe"] = 1)

C3_Witness ==
  /\ status["verdict_scribe"] = "running"
  /\ loopState = "MaxedOut"
  /\ AppendedBy("admirer", "pos_data")
  /\ AppendedBy("critic", "neg_data")

(* C4: the judge runs only when admirer and critic have both finished, and *)
(* then every key of the session state holds exactly the values appended   *)
(* to it, in call order, whatever the interleaving of the two branches.    *)

C4_JoinThenJudge ==
  status["judge"] = "running" =>
    /\ status["admirer"] = "done"
    /\ status["critic"] = "done"
    /\ \A key \in Keys : StateGet(state, key, <<>>) = Appended(key)

C4_Witness ==
  /\ status["judge"] = "running"
  /\ Len(log) = 2
  /\ log[1].agent = "critic" /\ log[1].key = "neg_data"
  /\ log[2].agent = "admirer" /\ log[2].key = "pos_data"
  /\ state["pos_data"] = <<log[2].value>>
  /\ state["neg_data"] = <<log[1].value>>

(* C5: a call update_session_state(k, v) leaves state[k] equal to its old  *)
(* list (empty if absent) with v appended and returns status success, and  *)
(* leaves every other key as it was; no step ever removes a key or changes *)
(* or reorders the entries a key already has.                              *)

C5_AppendOnly ==
  [][/\ \A k \in DOMAIN state :
          k \in DOMAIN state' /\ IsPrefix(state[k], state'[k])
     /\ (Len(log') = Len(log) + 1 =>
           LET e == log'[Len(log')]
           IN  /\ e.status = "success"
               /\ e.key \in DOMAIN state'
               /\ state'[e.key] = StateGet(state, e.key, <<>>) \o <<e.value>>
               /\ DOMAIN state' = DOMAIN state \cup {e.key}
               /\ \A k \in DOMAIN state \ {e.key} : state'[k] = state[k])
     /\ (Len(log') = Len(log) => state' = state)]_vars

C5_Witness ==
  \E k \in DOMAIN state :
    /\ Len(state[k]) = 2
    /\ state[k][1] # state[k][2]
    /\ log[1].agent # log[2].agent

(* C6: after the clerk has stored a subject s under SUBJECT_TOPIC (and no  *)
(* other agent has written that key), the entry renders as s, holds s      *)
(* alone, and the report file name of line 138 is s followed by ".txt".    *)

ClerkSubjects ==
  ValuesOf(SelectSeq(log, LAMBDA e : e.agent = "inquiry_clerk"
                                     /\ e.key = "SUBJECT_TOPIC"))

C6_SubjectIsScalar ==
  (/\ ClerkSubjects # <<>>
   /\ \A i \in 1..Len(log) :
        log[i].key = "SUBJECT_TOPIC" => log[i].agent = "inquiry_clerk")
  => LET s == ClerkSubjects[Len(ClerkSubjects)]
     IN  /\ inject_session_state(state, "SUBJECT_TOPIC") = s
         /\ ReportFileName(state) = <<s \o ".txt">>
         /\ Len(state["SUBJECT_TOPIC"]) = 1

(* C7: a call of export_verdict_to_txt that returns leaves the file        *)
(* folder/file_name holding exactly text, whatever it held before, with    *)
(* the folder and its parents created, and leaves other files alone; the   *)
(* call does return when the folder is named, does not exist, no regular   *)
(* file is in its way and the filesystem is writable; and repeating a      *)
(* successful call with equal arguments changes nothing.                   *)

ExportPath(c) ==
  join(c.folder, c.file_name)

Prefixes(p) ==
  {SubSeq(p, 1, i) : i \in 1..Len(p)}

C7_ExportCreatesAndOverwrites ==
  [][Len(exports') = Len(exports) + 1 =>
       LET c == exports'[Len(exports')]
           path == ExportPath(c)
       IN  /\ (c.status = "success" =>
                 /\ c.raised = "none"
                 /\ path \in DOMAIN fs'.files
                 /\ fs'.files[path] = c.text
                 /\ Prefixes(c.folder) \subseteq fs'.dirs
                 /\ \A q \in DOMAIN fs.files \ {path} :
                      q \in DOMAIN fs'.files /\ fs'.files[q] = fs.files[q])
           /\ (/\ c.folder # <<>>
               /\ c.folder \notin fs.dirs
               /\ Prefixes(c.folder) \cap DOMAIN fs.files = {}
               /\ ~fs.readOnly
               => c.status = "success")
           /\ (/\ exports # <<>>
               /\ exports[Len(exports)].status = "success"
               /\ exports[Len(exports)].folder = c.folder
               /\ exports[Len(exports)].file_name = c.file_name
               /\ exports[Len(exports)].text = c.text
               => c.status = "success" /\ fs' = fs)]_vars

C7_Witness ==
  /\ Len(exports) = 2
  /\ exports[1].status = "success" /\ exports[2].status = "success"
  /\ exports[1].folder = <<"out", "sub">>
  /\ exports[2].folder = <<"out", "sub">>
  /\ exports[1].text = "hello" /\ exports[2].text = "world"
  /\ fs.files[ExportPath(exports[2])] = "world"
  /\ <<"out">> \in fs.dirs

(* C8: every call of export_verdict_to_txt returns a status, "success" or  *)
(* a failure, and no exception leaves it and ends the run.                 *)

C8_ExportFailureIsAStatus ==
  /\ phase # "crashed"
  /\ \A i \in 1..Len(exports) :
       /\ exports[i].raised = "none"
       /\ exports[i].status \in {"success", "failure"}

(* C9: when MODEL is not set, importing the module ends in a configuration *)
(* error: no agent ever runs, no tool is called and no file is written.    *)

C10_SubjectBeforeWorkflow ==
  (phase = "workflow" \/ \E a \in WorkflowAgents : runs[a] > 0)
  => /\ "SUBJECT_TOPIC" \in DOMAIN state
     /\ AppendedBy("inquiry_clerk", "SUBJECT_TOPIC")

====
